---- MODULE Spec2Model ----
(***************************************************************************)
(* Model of stt/main.py: a FastAPI service that loads one WhisperModel at  *)
(* import time and serves POST /transcribe (async handler) and GET /health *)
(* (sync handler, run by the framework in a worker thread).                *)
(*                                                                         *)
(* The service runs on one asyncio event loop.  A coroutine that has been  *)
(* resumed runs on the loop thread until its next await; `loop` names the  *)
(* request whose coroutine currently occupies the loop thread.             *)
(*                                                                         *)
(* Optional values (an unset environment variable, a missing upload, no    *)
(* exception) are sets with at most one element.  Strings whose characters *)
(* matter (segment texts) are sequences of one-character strings.          *)
(***************************************************************************)
EXTENDS Integers, Sequences, FiniteSets, TLC

VARIABLES env, WHISPER_MODEL, COMPUTE, device, compute_type, model,
          req, loop, sent

config == <<env, WHISPER_MODEL, COMPUTE, device, compute_type, model>>
vars == <<env, WHISPER_MODEL, COMPUTE, device, compute_type, model, req, loop, sent>>

----------------------------------------------------------------------------
(* Bounds of the model *)

NumReqs == 2        \* requests that can be in flight at the same time
MaxSegs == 2        \* segments the engine emits for one recognition, at most
MaxSegLen == 2      \* characters in one segment text, at most

(* Program constant *)
MinBytes == 1500    \* len(data) < 1500

Reqs == 1..NumReqs
NoTask == 0

(* Inputs *)
ModelEnvValues == {{}, {"small"}}
ComputeEnvValues == {{}, {"cuda"}, {"CUDA"}, {"cpu"}, {"auto"}, {""}}
Lens == {0, MinBytes - 1, MinBytes}     \* empty, and both sides of the floor
Payloads == [len : Lens]       \* the handler looks at nothing but len(data)
Uploads == {{}} \cup {{p} : p \in Payloads}
Alphabet == {"a", " "}
Whitespace == {" "}
Languages == {"en", "de"}
Causes == {"decode", "oom"}

Texts(n) == UNION {[1..k -> Alphabet] : k \in 0..n}
SegTexts == Texts(MaxSegLen)     \* segment texts when one request is followed
BriefTexts == Texts(1)           \* segment texts when requests are interleaved

The(s) == CHOOSE x \in s : TRUE

----------------------------------------------------------------------------
(* Module-level configuration, lines 6-11 *)

getenv(name, default) == IF env[name] = {} THEN default ELSE The(env[name])

\* Fault variant: the comparison with "cuda" ignores letter case.
ResolveDeviceAnyCase(c) == IF c \in {"cuda", "CUDA"} THEN "cuda" ELSE "auto"

ResolveDevice(c) == IF c = "cuda" THEN "cuda" ELSE "auto"

ResolveComputeType(d) == IF d = "cuda" THEN "float16" ELSE "int8"

WhisperModel(size, dev, ct) == [size |-> size, device |-> dev, compute_type |-> ct]

----------------------------------------------------------------------------
(* Pure helpers of the transcribe handler *)

RECURSIVE JoinWith(_, _)
JoinWith(sep, texts) ==
    IF texts = <<>> THEN <<>>
    ELSE IF Len(texts) = 1 THEN texts[1]
    ELSE texts[1] \o sep \o JoinWith(sep, Tail(texts))

RECURSIVE lstrip(_)
lstrip(s) == IF s # <<>> /\ Head(s) \in Whitespace THEN lstrip(Tail(s)) ELSE s

RECURSIVE rstrip(_)
rstrip(s) ==
    IF s # <<>> /\ s[Len(s)] \in Whitespace THEN rstrip(SubSeq(s, 1, Len(s) - 1)) ELSE s

strip(s) == rstrip(lstrip(s))

\* Fault variant: " ".join(...) instead of "".join(...).
TextOfSpaced(segments) == strip(JoinWith(<<" ">>, segments))

TextOf(segments) == strip(JoinWith(<<>>, segments))

\* Fault variant: the floor is off by one.
TooShortOffByOne(data) == data.len = 0 \/ data.len < MinBytes - 1

TooShort(data) == data.len = 0 \/ data.len < MinBytes

----------------------------------------------------------------------------
(* Responses *)

ShortResponse == [status |-> 400, body |-> [detail |-> "audio too short"]]

\* Fault variant: detail=str(exc).
FailureResponseLeaky(exc) == [status |-> 422, body |-> [detail |-> exc]]

FailureResponse(exc) == [status |-> 422, body |-> [detail |-> "transcription failed"]]

\* Fault variant: the forced language is echoed instead of info.language.
SuccessResponseForcedLang(segments, info) ==
    [status |-> 200, body |-> [text |-> TextOf(segments), language |-> "en"]]

SuccessResponse(segments, info) ==
    [status |-> 200, body |-> [text |-> TextOf(segments), language |-> info]]

\* Fault variant: a missing upload is answered like a short one.
MissingAsShort == ShortResponse

MissingFieldResponse ==
    [status |-> 422, body |-> [detail |-> <<[loc |-> <<"body", "audio">>]>>]]

\* Fault variant: the raw WHISPER_COMPUTE value is echoed.
HealthBodyCompute == [ok |-> TRUE, model |-> WHISPER_MODEL, device |-> COMPUTE]

HealthBody == [ok |-> TRUE, model |-> WHISPER_MODEL, device |-> device]

HealthResponse(result) == [status |-> 200, body |-> result]

----------------------------------------------------------------------------
(* Per-request state *)

Idle == [pc |-> "idle", kind |-> "none", audio |-> {}, data |-> {},
         segments |-> <<>>, info |-> {}, calls |-> 0, entered |-> FALSE,
         checked |-> FALSE, result |-> {}]

Serving == model # {}

\* What one step hands to the client, with the request it answers.
Answer(r, response, exc) ==
    [rid |-> r, kind |-> req[r].kind, audio |-> req[r].audio,
     status |-> response.status, body |-> response.body,
     segments |-> req[r].segments, info |-> req[r].info, exc |-> exc,
     calls |-> req[r].calls, entered |-> req[r].entered,
     checked |-> req[r].checked]

Init ==
    /\ env \in [WHISPER_MODEL : ModelEnvValues, WHISPER_COMPUTE : ComputeEnvValues]
    /\ WHISPER_MODEL = getenv("WHISPER_MODEL", "base")
    /\ COMPUTE = getenv("WHISPER_COMPUTE", "auto")
    /\ device = ResolveDevice(COMPUTE)
    /\ compute_type = ResolveComputeType(device)
    /\ model \in {{}, {WhisperModel(WHISPER_MODEL, device, compute_type)}}
    /\ req = [r \in Reqs |-> Idle]
    /\ loop = NoTask
    /\ sent = {}

----------------------------------------------------------------------------
(* Actions *)

\* A client sends a request; the connection waits for the event loop.
Arrive(r) ==
    /\ Serving
    /\ req[r].pc = "idle"
    /\ \E k \in {"transcribe", "health"} :
       \E a \in Uploads :
          /\ k = "health" => a = {}
          /\ req' = [req EXCEPT ![r] = [Idle EXCEPT !.pc = "arrived", !.kind = k, !.audio = a]]
    /\ sent' = {}
    /\ UNCHANGED <<config, loop>>

\* Line 16: the framework binds the required File(...) parameter.
Validate(r) ==
    /\ loop = NoTask
    /\ req[r].pc = "arrived"
    /\ req[r].kind = "transcribe"
    /\ IF req[r].audio = {}
       THEN /\ sent' = {Answer(r, MissingFieldResponse, {})}
            /\ req' = [req EXCEPT ![r] = Idle]
       ELSE /\ sent' = {}
            /\ req' = [req EXCEPT ![r].pc = "reading", ![r].entered = TRUE]
    /\ UNCHANGED <<config, loop>>

\* Fault variant: the handler body runs off the event loop (a worker thread).
ReadOffLoop(r) ==
    /\ req[r].pc = "reading"
    /\ req' = [req EXCEPT ![r].pc = "check", ![r].data = req[r].audio]
    /\ sent' = {}
    /\ UNCHANGED <<config, loop>>

\* Line 17: data = await audio.read(); the coroutine resumes on the loop.
Read(r) ==
    /\ loop = NoTask
    /\ req[r].pc = "reading"
    /\ req' = [req EXCEPT ![r].pc = "check", ![r].data = req[r].audio]
    /\ loop' = r
    /\ sent' = {}
    /\ UNCHANGED config

\* Lines 18-19.
SizeCheck(r) ==
    /\ req[r].pc = "check"
    /\ IF TooShort(The(req[r].data))
       THEN /\ sent' = {Answer(r, ShortResponse, {})}
            /\ req' = [req EXCEPT ![r] = Idle]
            /\ loop' = NoTask
       ELSE /\ sent' = {}
            /\ req' = [req EXCEPT ![r].pc = "call", ![r].checked = TRUE]
            /\ loop' = loop
    /\ UNCHANGED config

\* Fault variant: a failed call to the engine is retried once.
EngineCallRetry(r) ==
    /\ req[r].pc = "call"
    /\ \/ \E lang \in Languages :
             /\ req' = [req EXCEPT ![r].pc = "segments", ![r].info = {lang},
                                   ![r].calls = req[r].calls + 1]
             /\ sent' = {}
             /\ loop' = loop
       \/ \E exc \in Causes :
             IF req[r].calls = 0
             THEN /\ req' = [req EXCEPT ![r].calls = 1]
                  /\ sent' = {}
                  /\ loop' = loop
             ELSE /\ sent' = {[Answer(r, FailureResponse(exc), {exc}) EXCEPT !.calls = req[r].calls + 1]}
                  /\ req' = [req EXCEPT ![r] = Idle]
                  /\ loop' = NoTask
    /\ UNCHANGED config

\* Lines 21-26 and 29-30: model.transcribe(...) returns (segments, info) or raises.
EngineCall(r) ==
    /\ req[r].pc = "call"
    /\ \/ \E lang \in Languages :
             /\ req' = [req EXCEPT ![r].pc = "segments", ![r].info = {lang},
                                   ![r].calls = req[r].calls + 1]
             /\ sent' = {}
             /\ loop' = loop
       \/ \E exc \in Causes :
             /\ sent' = {[Answer(r, FailureResponse(exc), {exc}) EXCEPT !.calls = req[r].calls + 1]}
             /\ req' = [req EXCEPT ![r] = Idle]
             /\ loop' = NoTask
    /\ UNCHANGED config

\* Lines 27-30: the comprehension pulls the next segment from the generator,
\* which yields one, raises, or is exhausted (join, strip, JSONResponse).
NextSegment(r, texts) ==
    /\ req[r].pc = "segments"
    /\ \/ \E t \in texts :
             /\ Len(req[r].segments) < MaxSegs
             /\ req' = [req EXCEPT ![r].segments = Append(req[r].segments, t)]
             /\ sent' = {}
             /\ loop' = loop
       \/ \E exc \in Causes :
             /\ sent' = {Answer(r, FailureResponse(exc), {exc})}
             /\ req' = [req EXCEPT ![r] = Idle]
             /\ loop' = NoTask
       \/ /\ sent' = {Answer(r, SuccessResponse(req[r].segments, The(req[r].info)), {})}
          /\ req' = [req EXCEPT ![r] = Idle]
          /\ loop' = NoTask
    /\ UNCHANGED config

\* Lines 32-33: health is a plain def, the loop hands it to a worker thread.
HealthDispatch(r) ==
    /\ loop = NoTask
    /\ req[r].pc = "arrived"
    /\ req[r].kind = "health"
    /\ req' = [req EXCEPT ![r].pc = "thread", ![r].entered = TRUE]
    /\ sent' = {}
    /\ UNCHANGED <<config, loop>>

\* Line 34, in the worker thread.
HealthRun(r) ==
    /\ req[r].pc = "thread"
    /\ req' = [req EXCEPT ![r].pc = "ran", ![r].result = {HealthBody}]
    /\ sent' = {}
    /\ UNCHANGED <<config, loop>>

\* The loop sends the worker thread's result as the response.
HealthRespond(r) ==
    /\ loop = NoTask
    /\ req[r].pc = "ran"
    /\ sent' = {Answer(r, HealthResponse(The(req[r].result)), {})}
    /\ req' = [req EXCEPT ![r] = Idle]
    /\ UNCHANGED <<config, loop>>

Next ==
    \E r \in Reqs :
        \/ Arrive(r)
        \/ Validate(r)
        \/ Read(r)
        \/ SizeCheck(r)
        \/ EngineCall(r)
        \/ NextSegment(r, BriefTexts)
        \/ HealthDispatch(r)
        \/ HealthRun(r)
        \/ HealthRespond(r)

Spec == Init /\ [][Next]_vars

\* One request at a time, with the engine emitting any text of SegTexts.
NextText ==
    LET r == 1
    IN \/ Arrive(r)
       \/ Validate(r)
       \/ Read(r)
       \/ SizeCheck(r)
       \/ EngineCall(r)
       \/ NextSegment(r, SegTexts)
       \/ HealthDispatch(r)
       \/ HealthRun(r)
       \/ HealthRespond(r)

SpecText == Init /\ [][NextText]_vars

----------------------------------------------------------------------------
(* Vocabulary of the properties *)

IsTranscribe(o) == o.kind = "transcribe"
IsHealth(o) == o.kind = "health"
HasAudio(o) == o.audio # {}
AudioLen(o) == The(o.audio).len
InRecognition(r) == req[r].pc \in {"call", "segments"}

----------------------------------------------------------------------------
(* C1: every response to a /transcribe request whose payload has fewer than
   1500 bytes (the empty payload included) is 400 "audio too short", and
   such a request never gets past the size check. *)
C1_ShortIs400 ==
    /\ \A o \in sent :
          (IsTranscribe(o) /\ HasAudio(o) /\ AudioLen(o) < MinBytes)
             => /\ o.status = 400
                /\ o.body = [detail |-> "audio too short"]
    /\ \A r \in Reqs :
          (req[r].audio # {} /\ The(req[r].audio).len < MinBytes) => ~InRecognition(r)

C1_Witness ==
    \E o \in sent : IsTranscribe(o) /\ HasAudio(o) /\ AudioLen(o) = MinBytes - 1 /\ o.status = 400

(* C2: when recognition raises, at the call or while segments are consumed,
   the response is 422 with the body {detail: "transcription failed"} and
   nothing else, whatever was raised and whatever was already emitted. *)
C2_FailureIs422 ==
    \A o \in sent :
       (IsTranscribe(o) /\ o.exc # {})
          => /\ HasAudio(o) /\ AudioLen(o) >= MinBytes
             /\ o.status = 422
             /\ o.body = [detail |-> "transcription failed"]

C2_Witness ==
    \E o \in sent : IsTranscribe(o) /\ o.exc = {"oom"} /\ o.segments # <<>> /\ o.status = 422

(* C3: a payload of at least 1500 bytes that the engine processes without
   raising is answered 200 with a body of exactly the fields text and
   language, both set, language being what the engine reported. *)
C3_SuccessIs200 ==
    \A o \in sent :
       (IsTranscribe(o) /\ HasAudio(o) /\ AudioLen(o) >= MinBytes /\ o.exc = {})
          => /\ o.status = 200
             /\ DOMAIN o.body = {"text", "language"}
             /\ o.body.text \in Seq(Alphabet)
             /\ o.body.language \in Languages
             /\ o.info = {o.body.language}

C3_Witness ==
    \E o \in sent : IsTranscribe(o) /\ HasAudio(o) /\ AudioLen(o) = MinBytes
                    /\ o.status = 200 /\ o.info = {"de"}

C5_HealthStable ==
    /\ [](\A o \in sent :
            IsHealth(o) => /\ o.status = 200
                           /\ o.body = [ok |-> TRUE, model |-> WHISPER_MODEL, device |-> device])
    /\ [][config' = config]_vars

C5_Witness ==
    \E o \in sent : /\ IsHealth(o)
                    /\ COMPUTE = "cpu"
                    /\ \E q \in Reqs : req[q].pc = "reading"

(* C6: the device is "cuda" with float16 exactly when WHISPER_COMPUTE is
   "cuda", and "auto" with int8 for every other value and when it is unset;
   /health reports that device, and WHISPER_MODEL or "base" when unset. *)
C6_DeviceResolution ==
    LET isCuda == env.WHISPER_COMPUTE = {"cuda"}
        expDevice == IF isCuda THEN "cuda" ELSE "auto"
        expModel == IF env.WHISPER_MODEL = {} THEN "base" ELSE The(env.WHISPER_MODEL)
    IN /\ device = expDevice
       /\ compute_type = (IF isCuda THEN "float16" ELSE "int8")
       /\ \A m \in model : m.device = expDevice /\ m.size = expModel
       /\ \A o \in sent :
             IsHealth(o) => o.body.device = expDevice /\ o.body.model = expModel

C6_Witness ==
    \E o \in sent : /\ IsHealth(o)
                    /\ env.WHISPER_COMPUTE = {"CUDA"}
                    /\ env.WHISPER_MODEL = {}
                    /\ o.body.device = "auto"

(* C7: the text of a 200 response is the segment texts laid end to end in
   emission order, nothing added between them, minus the whitespace at the
   two ends only. *)
RECURSIVE EndToEnd(_, _)
EndToEnd(segs, n) == IF n = 0 THEN <<>> ELSE EndToEnd(segs, n - 1) \o segs[n]

IsTrimOf(t, s) ==
    \E i \in 0..Len(s) :
       /\ i + Len(t) <= Len(s)
       /\ \A k \in 1..Len(t) : t[k] = s[i + k]
       /\ \A k \in 1..i : s[k] \in Whitespace
       /\ \A k \in (i + Len(t) + 1)..Len(s) : s[k] \in Whitespace
       /\ t # <<>> => (t[1] \notin Whitespace /\ t[Len(t)] \notin Whitespace)

C7_TextIsTrimmedConcat ==
    \A o \in sent :
       (IsTranscribe(o) /\ o.status = 200)
          => IsTrimOf(o.body.text, EndToEnd(o.segments, Len(o.segments)))

C7_Witness ==
    \E o \in sent :
       /\ IsTranscribe(o) /\ o.status = 200
       /\ o.segments = << <<" ", "a">>, <<" ", "a">> >>
       /\ o.body.text = <<"a", " ", "a">>

(* C8 as stated: while one request is in recognition, a /health request or a
   /transcribe request with a payload under 1500 bytes that has arrived can
   take its next step towards its response. *)
Waiting(q) ==
    /\ req[q].pc \in {"arrived", "reading", "ran"}
    /\ req[q].kind = "transcribe" => (req[q].audio # {} /\ The(req[q].audio).len < MinBytes)

Handle(q) == Validate(q) \/ Read(q) \/ HealthDispatch(q) \/ HealthRespond(q)

C8_OthersNotBlocked ==
    \A r \in Reqs : \A q \in Reqs \ {r} :
       (InRecognition(r) /\ Waiting(q)) => ENABLED Handle(q)

(* C9: no two requests are in the recognition step at the same time. *)
C9_RecognitionSerialized ==
    \A r \in Reqs : \A q \in Reqs :
       (InRecognition(r) /\ InRecognition(q)) => r = q

C9_Witness ==
    \E r \in Reqs : \E q \in Reqs \ {r} :
       /\ req[r].pc = "segments" /\ req[r].segments # <<>>
       /\ req[q].pc = "reading" /\ The(req[q].audio).len >= MinBytes

(* C10: a request calls the engine at most once, only after passing the size
   check, and exactly once when the payload has at least 1500 bytes; it is
   answered with 200, 400 or 422, a 400 without any call. *)
C10_OneCallPerRequest ==
    /\ \A r \in Reqs :
          /\ req[r].calls <= 1
          /\ InRecognition(r) => req[r].checked
          /\ req[r].calls = 1 => /\ req[r].checked
                                 /\ The(req[r].data).len >= MinBytes
    /\ \A o \in sent :
          IsTranscribe(o)
             => /\ o.status \in {200, 400, 422}
                /\ o.calls = (IF HasAudio(o) /\ AudioLen(o) >= MinBytes THEN 1 ELSE 0)
                /\ o.calls = 1 => o.checked
                /\ o.status = 400 => o.calls = 0

C10_Witness ==
    \E o \in sent : IsTranscribe(o) /\ o.status = 422 /\ o.calls = 1 /\ o.segments = <<>>

====
